---------------------------- MODULE Spec2Model ----------------------------
(***************************************************************************)
(* A model of the two numeric kernels of the repository:                   *)
(*                                                                         *)
(*   - calculate_step of src/src/nonlinear_diffusion.rs, one explicit      *)
(*     step of the non-linear diffusion, modelled statement by statement   *)
(*     (one action per loop iteration or block) under the specification    *)
(*     Spec, and called again and again on one image under the             *)
(*     specification SpecSteps;                                            *)
(*   - the pose algebra and the residual models of cv-core/src/pose.rs,    *)
(*     under the specification SpecPose.                                   *)
(*                                                                         *)
(* Numbers.  The inputs are small dyadic numbers, for which the f32 and    *)
(* f64 arithmetic of the code is exact.  A pixel of Ld and of Lstep is     *)
(* kept as an integer count of halves (Fix counts make 1.0), so that the   *)
(* factor 0.5 of the update stays an integer operation; a conductivity     *)
(* and the step size are kept as plain integers.                           *)
(***************************************************************************)
EXTENDS Integers, Sequences, FiniteSets, TLC

VARIABLES
    Ld,               \* evolution_step.Lt: the evolving image
    c,                \* evolution_step.Lflow: the conductivity field
    Lstep,            \* evolution_step.Lstep: the scratch buffer
    step_size,        \* the step size
    overflow_checks,  \* whether the build checks integer overflow
    pc,               \* the position inside calculate_step
    rng,              \* w, xmiddle, xend, ymiddle, yend of lines 19-27
    y,                \* the row of the running loop
    x,                \* the column of the running loop
    it,               \* the ten iterators of the middle loop (current index)
    sl,               \* the slice of the middle loop: next index and end
    Ld0,              \* history: Ld when calculate_step was called
    Lstep0,           \* history: Lstep when calculate_step was called
    written,          \* history: the flat indices of Lstep written so far
    steps,            \* history: the calls of calculate_step completed before
    Lbegin,           \* history: Ld before the first call of the sequence
    pose,             \* the pose a pose operation is applied to
    obs,              \* the observation or point handed to the operation
    res               \* what the pose operations returned so far

dvars == <<Ld, c, Lstep, step_size, overflow_checks, pc, rng, y, x, it, sl,
           Ld0, Lstep0, written, steps, Lbegin>>
svars == <<steps, Lbegin>>
pvars == <<pose, obs, res>>
vars == <<Ld, c, Lstep, step_size, overflow_checks, pc, rng, y, x, it, sl,
          Ld0, Lstep0, written, steps, Lbegin, pose, obs, res>>

---------------------------------------------------------------------------
(* Bounds and input sets *)

\* The largest width and height of the grids of the general inputs.
MaxDim == 3

\* The number of halves that make 1.0 (the factor 0.5 of line 129).
Fix == 2

\* usize, modelled 16 bits wide (the narrowest width Rust allows; TLC's
\* integers cannot hold 2^32).  Only the wrapped values of lines 23-27 depend
\* on it, and they are compared, never used as a valid index.
UsizeModulus == 2 ^ 16

\* Pixel values (in units of 1.0) of the general images.
ImageValues == {0, 1}

\* Conductivities of the general conductivity fields.
CondValues == {1, 2}

\* Step sizes.
StepSizes == {1, 2}

\* What the scratch buffer may hold from the step before (in halves).
ScratchFills == {0, 7}

---------------------------------------------------------------------------
(* The image buffer (GrayFloatImage): a row-major grid *)

Image(wd, ht, data) == [width |-> wd, height |-> ht, data |-> data]

\* The number of subpixels the flat iterators run over.
Size(img) == Len(img.data)

\* A result of an operation that may panic.
Ok(v) == [ok |-> TRUE, val |-> v]
Panic == [ok |-> FALSE, val |-> 0]

\* GrayFloatImage::get: bounds-checked in both coordinates.
Get(img, gx, gy) ==
    IF gx < img.width /\ gy < img.height
    THEN Ok(img.data[gy * img.width + gx + 1])
    ELSE Panic

\* GrayFloatImage::put: bounds-checked in both coordinates.
Put(img, gx, gy, v) ==
    IF gx < img.width /\ gy < img.height
    THEN Ok([img EXCEPT !.data[gy * img.width + gx + 1] = v])
    ELSE Panic

\* usize subtraction: a panic in a build with overflow checks, a wrap without.
USub(a, b, checks) ==
    IF a >= b THEN Ok(a - b)
    ELSE IF checks THEN Panic
    ELSE Ok((a - b) % UsizeModulus)

\* i32 as usize: a negative value wraps to the top of the range.
AsUsize(i) == i % UsizeModulus

---------------------------------------------------------------------------
(* eval, lines 217-241 *)

\* A variant of eval that adds the two image values instead of subtracting.
evalAdds(cc, LL, ex, ey, plus_x, plus_y) ==
    LET c0 == Get(cc, AsUsize(plus_x[1] + ex), AsUsize(plus_y[1] + ey))
        c1 == Get(cc, AsUsize(plus_x[2] + ex), AsUsize(plus_y[2] + ey))
        l0 == Get(LL, AsUsize(plus_x[3] + ex), AsUsize(plus_y[3] + ey))
        l1 == Get(LL, AsUsize(plus_x[4] + ex), AsUsize(plus_y[4] + ey))
    IN  IF c0.ok /\ c1.ok /\ l0.ok /\ l1.ok
        THEN Ok((c0.val + c1.val) * (l0.val + l1.val))
        ELSE Panic

\* A coordinate clamped into 0..n-1.
Clamp(i, n) == IF i < 0 THEN 0 ELSE IF i >= n /\ n > 0 THEN n - 1 ELSE i

\* A variant of eval that clamps every position into its grid.
evalClamps(cc, LL, ex, ey, plus_x, plus_y) ==
    LET c0 == Get(cc, Clamp(plus_x[1] + ex, cc.width), Clamp(plus_y[1] + ey, cc.height))
        c1 == Get(cc, Clamp(plus_x[2] + ex, cc.width), Clamp(plus_y[2] + ey, cc.height))
        l0 == Get(LL, Clamp(plus_x[3] + ex, LL.width), Clamp(plus_y[3] + ey, LL.height))
        l1 == Get(LL, Clamp(plus_x[4] + ex, LL.width), Clamp(plus_y[4] + ey, LL.height))
    IN  IF c0.ok /\ c1.ok /\ l0.ok /\ l1.ok
        THEN Ok((c0.val + c1.val) * (l0.val - l1.val))
        ELSE Panic

\* (c[p0] + c[p1]) * (Ld[p2] - Ld[p3]), the four positions being (ex, ey)
\* plus the four offsets; any get out of bounds panics.
eval(cc, LL, ex, ey, plus_x, plus_y) ==
    LET set_x == [k \in 1..4 |-> plus_x[k] + ex]
        set_y == [k \in 1..4 |-> plus_y[k] + ey]
        c0 == Get(cc, AsUsize(set_x[1]), AsUsize(set_y[1]))
        c1 == Get(cc, AsUsize(set_x[2]), AsUsize(set_y[2]))
        l0 == Get(LL, AsUsize(set_x[3]), AsUsize(set_y[3]))
        l1 == Get(LL, AsUsize(set_x[4]), AsUsize(set_y[4]))
    IN  IF c0.ok /\ c1.ok /\ l0.ok /\ l1.ok
        THEN Ok((c0.val + c1.val) * (l0.val - l1.val))
        ELSE Panic

\* The offsets the boundary blocks hand to eval.
Zero4 == <<0, 0, 0, 0>>
Pos4 == <<0, 1, 1, 0>>
Neg4 == <<-1, 0, 0, -1>>
Up4 == <<0, -1, -1, 0>>

\* A variant of HalfStep without the factor 0.5.
WholeStep(dt, sum) == dt * sum

\* 0.5 * (step_size as f32) * sum, in halves.
HalfStep(dt, sum) == (dt * sum) \div 2

---------------------------------------------------------------------------
(* calculate_step, lines 15-212 *)

AllPixels(img) == 0..(img.width * img.height - 1)

NoRanges == [w |-> 0, xmiddle_end |-> 0, xend |-> 0, ymiddle_end |-> 0, yend |-> 0]
NoIters == [Ld_yn |-> 0, Ld_yp |-> 0, Ld_xn |-> 0, Ld_x |-> 0, Ld_xp |-> 0,
            c_yn |-> 0, c_yp |-> 0, c_xn |-> 0, c_x |-> 0, c_xp |-> 0]
NoSlice == [next |-> 0, end |-> 0]

\* The state when calculate_step is entered with the given buffers.
Enter(image, cond, scratch, dt, checks) ==
    /\ Ld = image
    /\ c = cond
    /\ Lstep = scratch
    /\ step_size = dt
    /\ overflow_checks = checks
    /\ pc = "ranges"
    /\ rng = NoRanges
    /\ y = 0
    /\ x = 0
    /\ it = NoIters
    /\ sl = NoSlice
    /\ Ld0 = image
    /\ Lstep0 = scratch
    /\ written = {}
    /\ steps = 0
    /\ Lbegin = image

\* A panic: the call unwinds and leaves the buffers as they are.
Fault ==
    /\ pc' = "fault"
    /\ UNCHANGED <<Ld, c, Lstep, step_size, overflow_checks, rng, y, x, it, sl,
                   Ld0, Lstep0, written>>

\* Lines 19-27: the width and the significant positions and ranges.  The
\* ranges start at 1 (xmiddle, ymiddle) and xbegin = ybegin = 0.
Ranges ==
    /\ pc = "ranges"
    /\ LET xe == USub(Lstep.width, 1, overflow_checks)
           ye == USub(Lstep.height, 1, overflow_checks)
       IN  IF xe.ok /\ ye.ok
           THEN /\ rng' = [w |-> Lstep.width,
                           xmiddle_end |-> xe.val, xend |-> xe.val,
                           ymiddle_end |-> ye.val, yend |-> ye.val]
                /\ y' = 1
                /\ pc' = "middle"
                /\ UNCHANGED <<Ld, c, Lstep, step_size, overflow_checks, x, it, sl,
                               Ld0, Lstep0, written>>
           ELSE Fault
    /\ UNCHANGED svars
    /\ UNCHANGED pvars

\* A variant of RowStart whose lower-row iterators start one element early.
RowStartEarly(w, yy) ==
    [Ld_yn |-> w * (yy - 1) + 1, Ld_yp |-> w * (yy + 1), Ld_xn |-> w * yy,
     Ld_x |-> w * yy + 1, Ld_xp |-> w * yy + 2,
     c_yn |-> w * (yy - 1) + 1, c_yp |-> w * (yy + 1), c_xn |-> w * yy,
     c_x |-> w * yy + 1, c_xp |-> w * yy + 2]

\* The indices the ten nth() calls of lines 36-109 ask for, in row yy.
RowStart(w, yy) ==
    [Ld_yn |-> w * (yy - 1) + 1, Ld_yp |-> w * (yy + 1) + 1, Ld_xn |-> w * yy,
     Ld_x |-> w * yy + 1, Ld_xp |-> w * yy + 2,
     c_yn |-> w * (yy - 1) + 1, c_yp |-> w * (yy + 1) + 1, c_xn |-> w * yy,
     c_x |-> w * yy + 1, c_xp |-> w * yy + 2]

LdIters == {"Ld_yn", "Ld_yp", "Ld_xn", "Ld_x", "Ld_xp"}
cIters == {"c_yn", "c_yp", "c_xn", "c_x", "c_xp"}

\* Whether every iterator of `its` points at an element (unwrap succeeds).
AllSome(its) ==
    /\ \A k \in LdIters : its[k] < Size(Ld)
    /\ \A k \in cIters : its[k] < Size(c)

\* Lines 30-111: the head of the middle loop and the set-up of one row: the
\* ten iterators and the slice of Lstep from w*y+1 to w*y+w-1.
MiddleRow ==
    /\ pc = "middle"
    /\ IF y < rng.ymiddle_end
       THEN LET start == RowStart(rng.w, y)
                send == USub(rng.w * y + rng.w, 1, overflow_checks)
            IN  IF /\ AllSome(start)
                   /\ send.ok
                   /\ rng.w * y + 1 <= send.val
                   /\ send.val <= Size(Lstep)
                THEN /\ it' = start
                     /\ sl' = [next |-> rng.w * y + 1, end |-> send.val]
                     /\ pc' = "pixel"
                     /\ UNCHANGED <<Ld, c, Lstep, step_size, overflow_checks, rng,
                                    y, x, Ld0, Lstep0, written>>
                ELSE Fault
       ELSE /\ pc' = "top"
            /\ x' = 1
            /\ UNCHANGED <<Ld, c, Lstep, step_size, overflow_checks, rng, y, it, sl,
                           Ld0, Lstep0, written>>
    /\ UNCHANGED svars
    /\ UNCHANGED pvars

\* A variant of MiddleSum whose flux to the right weighs with the pixel's own
\* conductivity alone.
MiddleSumOneSided(its) ==
    LET c_x_i == c.data[its.c_x + 1]
        c_xn_i == c.data[its.c_xn + 1]
        c_yp_i == c.data[its.c_yp + 1]
        c_yn_i == c.data[its.c_yn + 1]
        Ld_x_i == Ld.data[its.Ld_x + 1]
        Ld_xp_i == Ld.data[its.Ld_xp + 1]
        Ld_xn_i == Ld.data[its.Ld_xn + 1]
        Ld_yp_i == Ld.data[its.Ld_yp + 1]
        Ld_yn_i == Ld.data[its.Ld_yn + 1]
        x_pos == (c_x_i + c_x_i) * (Ld_xp_i - Ld_x_i)
        x_neg == (c_xn_i + c_x_i) * (Ld_x_i - Ld_xn_i)
        y_pos == (c_x_i + c_yp_i) * (Ld_yp_i - Ld_x_i)
        y_neg == (c_yn_i + c_x_i) * (Ld_x_i - Ld_yn_i)
    IN  x_pos - x_neg + y_pos - y_neg

\* Lines 119-126: the four fluxes of the pixel the iterators stand at, summed
\* as line 129 sums them.
MiddleSum(its) ==
    LET c_x_i == c.data[its.c_x + 1]
        c_xp_i == c.data[its.c_xp + 1]
        c_xn_i == c.data[its.c_xn + 1]
        c_yp_i == c.data[its.c_yp + 1]
        c_yn_i == c.data[its.c_yn + 1]
        Ld_x_i == Ld.data[its.Ld_x + 1]
        Ld_xp_i == Ld.data[its.Ld_xp + 1]
        Ld_xn_i == Ld.data[its.Ld_xn + 1]
        Ld_yp_i == Ld.data[its.Ld_yp + 1]
        Ld_yn_i == Ld.data[its.Ld_yn + 1]
        x_pos == (c_x_i + c_xp_i) * (Ld_xp_i - Ld_x_i)
        x_neg == (c_xn_i + c_x_i) * (Ld_x_i - Ld_xn_i)
        y_pos == (c_x_i + c_yp_i) * (Ld_yp_i - Ld_x_i)
        y_neg == (c_yn_i + c_x_i) * (Ld_x_i - Ld_yn_i)
    IN  x_pos - x_neg + y_pos - y_neg

\* A variant of MiddleValue that adds into the scratch pixel (+= for =).
MiddleValueAccumulates(its) ==
    Lstep.data[its.Ld_x + 1] + HalfStep(step_size, MiddleSum(its))

\* Line 129: the value assigned to the scratch pixel.
MiddleValue(its) == HalfStep(step_size, MiddleSum(its))

\* Lines 131-141: every iterator steps to its next element.
Advance(its) == [k \in DOMAIN its |-> its[k] + 1]

\* Lines 112-142: one pixel of the row's slice: the value is written, then
\* the ten next().unwrap() run; the row's end goes back to the loop head.
MiddlePixel ==
    /\ pc = "pixel"
    /\ IF sl.next < sl.end
       THEN /\ Lstep' = [Lstep EXCEPT !.data[sl.next + 1] = MiddleValue(it)]
            /\ written' = written \cup {sl.next}
            /\ IF AllSome(Advance(it))
               THEN /\ it' = Advance(it)
                    /\ sl' = [sl EXCEPT !.next = sl.next + 1]
                    /\ pc' = "pixel"
               ELSE /\ pc' = "fault"
                    /\ UNCHANGED <<it, sl>>
            /\ UNCHANGED y
       ELSE /\ y' = y + 1
            /\ pc' = "middle"
            /\ UNCHANGED <<Lstep, written, it, sl>>
    /\ UNCHANGED <<Ld, c, step_size, overflow_checks, rng, x, Ld0, Lstep0>>
    /\ UNCHANGED svars
    /\ UNCHANGED pvars

\* One boundary block: the evals, then Lstep.put(bx, by, 0.5 * step * sum).
\* `evals` are the block's eval results and `sum` their signed sum; a panic of
\* an eval or of the put leaves the buffers as they are.
Block(bx, by, evals, sum, next_pc) ==
    LET put == Put(Lstep, bx, by, HalfStep(step_size, sum))
    IN  IF (\A k \in DOMAIN evals : evals[k].ok) /\ put.ok
        THEN /\ Lstep' = put.val
             /\ written' = written \cup {by * Lstep.width + bx}
             /\ pc' = next_pc
        ELSE /\ pc' = "fault"
             /\ UNCHANGED <<Lstep, written>>

\* Lines 145-154: the top row between the corners.
Top ==
    /\ pc = "top"
    /\ IF x < rng.xmiddle_end
       THEN LET x_pos == eval(c, Ld, x, 0, Pos4, Zero4)
                y_pos == eval(c, Ld, x, 0, Zero4, Pos4)
                x_neg == eval(c, Ld, x, 0, Neg4, Zero4)
            IN  /\ Block(x, 0, <<x_pos, y_pos, x_neg>>,
                         x_pos.val - x_neg.val + y_pos.val, "top")
                /\ x' = IF pc' = "fault" THEN x ELSE x + 1
       ELSE /\ pc' = "top_left"
            /\ UNCHANGED <<Lstep, written, x>>
    /\ UNCHANGED <<Ld, c, step_size, overflow_checks, rng, y, it, sl, Ld0, Lstep0>>
    /\ UNCHANGED svars
    /\ UNCHANGED pvars

\* Lines 156-160.
TopLeft ==
    /\ pc = "top_left"
    /\ LET x_pos == eval(c, Ld, 0, 0, Pos4, Zero4)
           y_pos == eval(c, Ld, 0, 0, Zero4, Pos4)
       IN  Block(0, 0, <<x_pos, y_pos>>, x_pos.val + y_pos.val, "top_right")
    /\ UNCHANGED <<Ld, c, step_size, overflow_checks, rng, y, x, it, sl, Ld0, Lstep0>>
    /\ UNCHANGED svars
    /\ UNCHANGED pvars

\* Lines 162-166.
TopRight ==
    /\ pc = "top_right"
    /\ LET y_pos == eval(c, Ld, rng.xend, 0, Zero4, Pos4)
           x_neg == eval(c, Ld, rng.xend, 0, Neg4, Zero4)
       IN  Block(rng.xend, 0, <<y_pos, x_neg>>, (-x_neg.val) + y_pos.val, "bottom")
    /\ x' = 1
    /\ UNCHANGED <<Ld, c, step_size, overflow_checks, rng, y, it, sl, Ld0, Lstep0>>
    /\ UNCHANGED svars
    /\ UNCHANGED pvars

\* Lines 168-173: the bottom row between the corners.
Bottom ==
    /\ pc = "bottom"
    /\ IF x < rng.xmiddle_end
       THEN LET x_pos == eval(c, Ld, x, rng.yend, Pos4, Zero4)
                y_pos == eval(c, Ld, x, rng.yend, Zero4, Up4)
                x_neg == eval(c, Ld, x, rng.yend, Neg4, Zero4)
            IN  /\ Block(x, rng.yend, <<x_pos, y_pos, x_neg>>,
                         x_pos.val - x_neg.val + y_pos.val, "bottom")
                /\ x' = IF pc' = "fault" THEN x ELSE x + 1
       ELSE /\ pc' = "bottom_left"
            /\ UNCHANGED <<Lstep, written, x>>
    /\ UNCHANGED <<Ld, c, step_size, overflow_checks, rng, y, it, sl, Ld0, Lstep0>>
    /\ UNCHANGED svars
    /\ UNCHANGED pvars

\* Lines 175-179.
BottomLeft ==
    /\ pc = "bottom_left"
    /\ LET x_pos == eval(c, Ld, 0, rng.yend, Pos4, Zero4)
           y_pos == eval(c, Ld, 0, rng.yend, Zero4, Up4)
       IN  Block(0, rng.yend, <<x_pos, y_pos>>, x_pos.val + y_pos.val, "bottom_right")
    /\ UNCHANGED <<Ld, c, step_size, overflow_checks, rng, y, x, it, sl, Ld0, Lstep0>>
    /\ UNCHANGED svars
    /\ UNCHANGED pvars

\* Lines 181-185.
BottomRight ==
    /\ pc = "bottom_right"
    /\ LET y_pos == eval(c, Ld, rng.xend, rng.yend, Zero4, Up4)
           x_neg == eval(c, Ld, rng.xend, rng.yend, Neg4, Zero4)
       IN  Block(rng.xend, rng.yend, <<y_pos, x_neg>>, (-x_neg.val) + y_pos.val, "left")
    /\ y' = 1
    /\ UNCHANGED <<Ld, c, step_size, overflow_checks, rng, x, it, sl, Ld0, Lstep0>>
    /\ UNCHANGED svars
    /\ UNCHANGED pvars

\* Lines 187-198: the head of the last loop and the left pixel of row y.
Left ==
    /\ pc = "left"
    /\ IF y < rng.ymiddle_end
       THEN LET x_pos == eval(c, Ld, 0, y, Pos4, Zero4)
                y_pos == eval(c, Ld, 0, y, Zero4, Pos4)
                y_neg == eval(c, Ld, 0, y, Zero4, Neg4)
            IN  Block(0, y, <<x_pos, y_pos, y_neg>>,
                      x_pos.val + y_pos.val - y_neg.val, "right")
       ELSE /\ pc' = "apply"
            /\ UNCHANGED <<Lstep, written>>
    /\ sl' = IF pc' = "apply" THEN [next |-> 0, end |-> Size(Ld)] ELSE sl
    /\ UNCHANGED <<Ld, c, step_size, overflow_checks, rng, y, x, it, Ld0, Lstep0>>
    /\ UNCHANGED svars
    /\ UNCHANGED pvars

\* Lines 200-205: the right pixel of row y.
Right ==
    /\ pc = "right"
    /\ LET y_pos == eval(c, Ld, rng.xend, y, Zero4, Pos4)
           x_neg == eval(c, Ld, rng.xend, y, Neg4, Zero4)
           y_neg == eval(c, Ld, rng.xend, y, Zero4, Neg4)
       IN  Block(rng.xend, y, <<y_pos, x_neg, y_neg>>,
                 (-x_neg.val) + y_pos.val - y_neg.val, "left")
    /\ y' = IF pc' = "fault" THEN y ELSE y + 1
    /\ UNCHANGED <<Ld, c, step_size, overflow_checks, rng, x, it, sl, Ld0, Lstep0>>
    /\ UNCHANGED svars
    /\ UNCHANGED pvars

\* Lines 208-211: Lstep is added into Ld, one element of the two flat
\* iterators at a time; Lstep running out is a failed unwrap.
Apply ==
    /\ pc = "apply"
    /\ IF sl.next < sl.end
       THEN IF sl.next < Size(Lstep)
            THEN /\ Ld' = [Ld EXCEPT !.data[sl.next + 1] = @ + Lstep.data[sl.next + 1]]
                 /\ sl' = [sl EXCEPT !.next = sl.next + 1]
                 /\ pc' = "apply"
            ELSE /\ pc' = "fault"
                 /\ UNCHANGED <<Ld, sl>>
       ELSE /\ pc' = "done"
            /\ UNCHANGED <<Ld, sl>>
    /\ UNCHANGED <<c, Lstep, step_size, overflow_checks, rng, y, x, it,
                   Ld0, Lstep0, written>>
    /\ UNCHANGED svars
    /\ UNCHANGED pvars

---------------------------------------------------------------------------
(* The inputs of calculate_step *)

\* A grid holding `base` everywhere but `v` at the flat position p (from 1).
PointImage(wd, ht, base, p, v) ==
    Image(wd, ht, [i \in 1..(wd * ht) |-> IF i = p THEN v ELSE base])

\* A grid whose pixels all differ: k * i at the flat position i (from 1).
RampImage(wd, ht, k) == Image(wd, ht, [i \in 1..(wd * ht) |-> k * i])

NoPose == [tag |-> "none"]

PoseIdle ==
    /\ pose = NoPose
    /\ obs = NoPose
    /\ res = NoPose

\* Well-formed calls: three buffers of one size, at least 2 by 2.  An image is
\* flat or differs from flat in one pixel, and so is a conductivity field:
\* the update is linear in the image and linear in the conductivity, so these
\* span every dependency of a scratch pixel on a pixel of either buffer.
InitGeneral ==
    \E wd \in 2..MaxDim, ht \in 2..MaxDim :
      \E b \in ImageValues, v \in ImageValues, p \in 1..(wd * ht),
         cb \in CondValues, cv \in CondValues, q \in 1..(wd * ht),
         dt \in StepSizes, s \in ScratchFills :
        Enter(PointImage(wd, ht, Fix * b, p, Fix * v),
              PointImage(wd, ht, cb, q, cv),
              PointImage(wd, ht, s, 1, s), dt, TRUE)

\* The point-source scenario: a 5 by 5 image, 1.0 at the centre (2,2) and 0.0
\* elsewhere, under a uniform conductivity.
InitPointSource ==
    \E cb \in CondValues, dt \in StepSizes, s \in ScratchFills :
        Enter(PointImage(5, 5, 0, 2 * 5 + 2 + 1, Fix),
              PointImage(5, 5, cb, 1, cb),
              PointImage(5, 5, s, 1, s), dt, TRUE)

\* Calls that may break the contract: any width and height from 0, and a
\* conductivity field of any size of its own, in either build.
InitContract ==
    \E wd \in 0..MaxDim, ht \in 0..MaxDim,
       cw \in 0..(MaxDim + 1), ch \in 0..(MaxDim + 1), checks \in BOOLEAN :
        Enter(RampImage(wd, ht, Fix), RampImage(cw, ch, 1),
              PointImage(wd, ht, 7, 1, 7), 1, checks)

Init ==
    /\ InitGeneral \/ InitPointSource \/ InitContract
    /\ PoseIdle

Next ==
    \/ Ranges
    \/ MiddleRow
    \/ MiddlePixel
    \/ Top
    \/ TopLeft
    \/ TopRight
    \/ Bottom
    \/ BottomLeft
    \/ BottomRight
    \/ Left
    \/ Right
    \/ Apply

Spec == Init /\ [][Next]_vars

\* The shape of the state.  The pixels of the image a call starts from are
\* whole numbers (an even count of halves), which makes every sum that
\* HalfStep halves even: the halving of the model is exact.
TypeOK ==
    /\ pc \in {"ranges", "middle", "pixel", "top", "top_left", "top_right", "bottom",
               "bottom_left", "bottom_right", "left", "right", "apply", "done", "fault"}
    /\ Len(Ld.data) = Ld.width * Ld.height
    /\ Len(Lstep.data) = Lstep.width * Lstep.height
    /\ Len(c.data) = c.width * c.height
    /\ \A i \in 1..Len(Ld0.data) : Ld0.data[i] % 2 = 0

---------------------------------------------------------------------------
(* A sequence of steps: calculate_step called again on the image it left *)

\* The most calls of calculate_step in a sequence.
MaxSteps == 2

\* The conductivity fields of a sequence: flat, or differing from flat in the
\* first pixel or in the middle one.
CondChanges(wd, ht) ==
    {PointImage(wd, ht, cb, q, cv) :
        cb \in CondValues, cv \in CondValues, q \in {1, (wd * ht) \div 2 + 1}}

\* The first call of a sequence.  A pixel is a multiple of 2^MaxSteps halves:
\* a step halves the unit of the pixels at most once, so every halving of
\* the sequence is exact.
InitSteps ==
    /\ \E wd \in 2..MaxDim, ht \in 2..MaxDim :
         \E b \in ImageValues, v \in ImageValues, p \in 1..(wd * ht),
            cond \in CondChanges(wd, ht), dt \in StepSizes :
           Enter(PointImage(wd, ht, (2 ^ MaxSteps) * b, p, (2 ^ MaxSteps) * v),
                 cond, PointImage(wd, ht, 0, 1, 0), dt, TRUE)
    /\ PoseIdle

\* The caller sets another conductivity field and calls calculate_step again:
\* the image and the scratch buffer are as the step before left them.
StepAgain ==
    /\ pc = "done"
    /\ steps + 1 < MaxSteps
    /\ \E cond \in CondChanges(Ld.width, Ld.height) : c' = cond
    /\ pc' = "ranges"
    /\ rng' = NoRanges
    /\ y' = 0
    /\ x' = 0
    /\ it' = NoIters
    /\ sl' = NoSlice
    /\ Ld0' = Ld
    /\ Lstep0' = Lstep
    /\ written' = {}
    /\ steps' = steps + 1
    /\ UNCHANGED <<Ld, Lstep, step_size, overflow_checks, Lbegin>>
    /\ UNCHANGED pvars

NextSteps ==
    \/ Ranges
    \/ MiddleRow
    \/ MiddlePixel
    \/ Top
    \/ TopLeft
    \/ TopRight
    \/ Bottom
    \/ BottomLeft
    \/ BottomRight
    \/ Left
    \/ Right
    \/ Apply
    \/ StepAgain

SpecSteps == InitSteps /\ [][NextSteps]_vars

---------------------------------------------------------------------------
(* Vectors, rotations and isometries (nalgebra), over the integers *)

Dot(u, v) == u[1] * v[1] + u[2] * v[2] + u[3] * v[3]

Cross(u, v) ==
    <<u[2] * v[3] - u[3] * v[2], u[3] * v[1] - u[1] * v[3], u[1] * v[2] - u[2] * v[1]>>

NormSquared(u) == Dot(u, u)

VecAdd(u, v) == <<u[1] + v[1], u[2] + v[2], u[3] + v[3]>>

VecNeg(u) == <<-u[1], -u[2], -u[3]>>

VecScale(k, u) == <<k * u[1], k * u[2], k * u[3]>>

MatVec(M, v) == <<Dot(M[1], v), Dot(M[2], v), Dot(M[3], v)>>

Transpose(M) ==
    <<<<M[1][1], M[2][1], M[3][1]>>,
      <<M[1][2], M[2][2], M[3][2]>>,
      <<M[1][3], M[2][3], M[3][3]>>>>

Column(M, j) == <<M[1][j], M[2][j], M[3][j]>>

MatMul(A, B) ==
    <<<<Dot(A[1], Column(B, 1)), Dot(A[1], Column(B, 2)), Dot(A[1], Column(B, 3))>>,
      <<Dot(A[2], Column(B, 1)), Dot(A[2], Column(B, 2)), Dot(A[2], Column(B, 3))>>,
      <<Dot(A[3], Column(B, 1)), Dot(A[3], Column(B, 2)), Dot(A[3], Column(B, 3))>>>>

Det(M) == Dot(M[1], Cross(M[2], M[3]))

IdentityMatrix == <<<<1, 0, 0>>, <<0, 1, 0>>, <<0, 0, 1>>>>

\* The rotations with integer entries: the 24 rotations of the cube (the
\* signed permutation matrices of determinant +1).  On them, and on integer
\* translations and points, the f64 arithmetic of the code is exact.
Units == {<<1, 0, 0>>, <<0, 1, 0>>, <<0, 0, 1>>, <<-1, 0, 0>>, <<0, -1, 0>>, <<0, 0, -1>>}
Rotations == {M \in Units \X Units \X Units : Det(M) = 1}

\* The largest absolute value of a coordinate of a translation.
MaxTranslation == 1

Translations ==
    (-MaxTranslation..MaxTranslation) \X (-MaxTranslation..MaxTranslation)
        \X (-MaxTranslation..MaxTranslation)

\* IsometryMatrix3: a rotation and a translation.
Isometry(rot, tr) == [rotation |-> rot, translation |-> tr]

\* IsometryMatrix3::identity.
IsoIdentity == Isometry(IdentityMatrix, <<0, 0, 0>>)

\* IsometryMatrix3::inverse: the inverse rotation, and the translation
\* rotated by it and negated.
IsoInverse(iso) ==
    Isometry(Transpose(iso.rotation),
             VecNeg(MatVec(Transpose(iso.rotation), iso.translation)))

\* The product of two isometries (line 315): first b, then a.
IsoMul(a, b) ==
    Isometry(MatMul(a.rotation, b.rotation),
             VecAdd(MatVec(a.rotation, b.translation), a.translation))

\* to_homogeneous() * h, for a homogeneous point h = (x, y, z, w).
HomMul(iso, h) ==
    LET xyz == VecAdd(MatVec(iso.rotation, <<h[1], h[2], h[3]>>),
                      VecScale(h[4], iso.translation))
    IN  <<xyz[1], xyz[2], xyz[3], h[4]>>

---------------------------------------------------------------------------
(* Poses, lines 16-126 and 174-306 *)

PoseTags == {"WorldToCamera", "CameraToWorld", "CameraToCamera", "WorldToWorld"}

\* type InputPoint of each impl Pose.
InputPoint(tag) ==
    IF tag \in {"WorldToCamera", "WorldToWorld"} THEN "WorldPoint" ELSE "CameraPoint"

\* type OutputPoint of each impl Pose.
OutputPoint(tag) ==
    IF tag \in {"CameraToWorld", "WorldToWorld"} THEN "WorldPoint" ELSE "CameraPoint"

\* A variant of InverseTag in which every pose is its own inverse type.
InverseTagSame(tag) == tag

\* type Inverse of each impl Pose.
InverseTag(tag) ==
    CASE tag = "WorldToCamera" -> "CameraToWorld"
      [] tag = "CameraToWorld" -> "WorldToCamera"
      [] tag = "CameraToCamera" -> "CameraToCamera"
      [] tag = "WorldToWorld" -> "WorldToWorld"

\* A pose: the tuple struct of its frame pair around an isometry (From/Into).
MakePose(tag, iso) == [tag |-> tag, iso |-> iso]

\* Pose::isometry.
isometry(p) == p.iso

\* A variant of inverse that inverts the rotation only.
inverseRotationOnly(p) ==
    MakePose(InverseTag(p.tag),
             Isometry(Transpose(isometry(p).rotation), VecNeg(isometry(p).translation)))

\* Pose::inverse, lines 30-32.
inverse(p) == MakePose(InverseTag(p.tag), IsoInverse(isometry(p)))

\* A point of a frame, in homogeneous coordinates (Projective).
MakePoint(type, h) == [type |-> type, h |-> h]

\* pose_output, lines 129-131.
pose_output(p, input) == HomMul(isometry(p), input.h)

\* Pose::transform, lines 123-125.
transform(p, input) == MakePoint(OutputPoint(p.tag), pose_output(p, input))

---------------------------------------------------------------------------
(* The Jacobians of transform, lines 73-116 and 133-172 *)

\* Vector3::cross_matrix: the matrix M with M * u = v x u.
CrossMatrix(v) ==
    <<<<0, -v[3], v[2]>>,
      <<v[3], 0, -v[1]>>,
      <<-v[2], v[1], 0>>>>

\* Skew3::jacobian_self(v): the cross matrix of the output of the rotation.
Skew3_jacobian_self(v) == CrossMatrix(v)

\* Matrix3::to_homogeneous: one more dimension, with 1 on its diagonal.
MatToHomogeneous(M) ==
    <<<<M[1][1], M[1][2], M[1][3], 0>>,
      <<M[2][1], M[2][2], M[2][3], 0>>,
      <<M[3][1], M[3][2], M[3][3], 0>>,
      <<0, 0, 0, 1>>>>

\* Translation3::to_homogeneous: the identity with the vector as last column.
TranslationToHomogeneous(t) ==
    <<<<1, 0, 0, t[1]>>,
      <<0, 1, 0, t[2]>>,
      <<0, 0, 1, t[3]>>,
      <<0, 0, 0, 1>>>>

\* IsometryMatrix3::to_homogeneous: the rotation with the translation as
\* last column.
IsoToHomogeneous(iso) ==
    <<<<iso.rotation[1][1], iso.rotation[1][2], iso.rotation[1][3], iso.translation[1]>>,
      <<iso.rotation[2][1], iso.rotation[2][2], iso.rotation[2][3], iso.translation[2]>>,
      <<iso.rotation[3][1], iso.rotation[3][2], iso.rotation[3][3], iso.translation[3]>>,
      <<0, 0, 0, 1>>>>

\* Matrix4::identity() * k.
ScaledIdentity4(k) ==
    <<<<k, 0, 0, 0>>, <<0, k, 0, 0>>, <<0, 0, k, 0>>, <<0, 0, 0, k>>>>

\* The product of two 4 by 4 matrices.
Mat4Mul(A, B) ==
    [i \in 1..4 |->
        [j \in 1..4 |->
            A[i][1] * B[1][j] + A[i][2] * B[2][j] + A[i][3] * B[3][j] + A[i][4] * B[4][j]]]

\* Matrix6x4::from_rows(rows).transpose(): the rows become the columns.
FromRowsTransposed(rows) ==
    [i \in 1..4 |-> [j \in 1..Len(rows) |-> rows[j][i]]]

\* pose_rotated_output, lines 134-138: the input rotated but not translated,
\* and the output.
pose_rotated_output(p, input) ==
    [rotated |-> HomMul(Isometry(isometry(p).rotation, <<0, 0, 0>>), input.h),
     output |-> HomMul(isometry(p), input.h)]

\* pose_jacobian_input, lines 141-143.
pose_jacobian_input(p) == IsoToHomogeneous(isometry(p))

\* pose_jacobian_self, lines 146-172.
pose_jacobian_self(p, rotated, output) ==
    LET translation == TranslationToHomogeneous(isometry(p).translation)
        dp_dt == ScaledIdentity4(output[4])
        dp_ds == Mat4Mul(translation,
                         MatToHomogeneous(
                             Skew3_jacobian_self(<<rotated[1], rotated[2], rotated[3]>>)))
    IN  FromRowsTransposed(<<dp_dt[1], dp_dt[2], dp_dt[3], dp_ds[1], dp_ds[2], dp_ds[3]>>)

\* Pose::transform_jacobians, lines 73-85.
transform_jacobians(p, input) ==
    LET ro == pose_rotated_output(p, input)
    IN  [output |-> MakePoint(OutputPoint(p.tag), ro.output),
         jacobian_input |-> pose_jacobian_input(p),
         jacobian_self |-> pose_jacobian_self(p, ro.rotated, ro.output)]

\* Pose::transform_jacobian_self, lines 108-115.
transform_jacobian_self(p, input) ==
    LET ro == pose_rotated_output(p, input)
    IN  [output |-> MakePoint(OutputPoint(p.tag), ro.output),
         jacobian_self |-> pose_jacobian_self(p, ro.rotated, ro.output)]

---------------------------------------------------------------------------
(* Floating-point results of the residuals *)

\* A bearing is a unit vector; it is kept as the integer vector of 5 times
\* its coordinates, of squared norm 25.
BearingNormSq == 25

\* A result: not-a-number, or the number int + num / sqrt(densq).
NaN == [nan |-> TRUE, int |-> 0, num |-> 0, densq |-> 1]
Number(i, n, d) == [nan |-> FALSE, int |-> i, num |-> n, densq |-> d]

\* The literal 1.0.
One == Number(1, 0, 1)

Abs(i) == IF i < 0 THEN -i ELSE i

\* A variant of ScaledDotAbs that guards the division: 0.0 on a zero norm.
ScaledDotAbsGuarded(u, v, n) ==
    IF n = 0 THEN Number(0, 0, 1) ELSE Number(0, Abs(Dot(u, v)), BearingNormSq * n)

\* u.dot(&v.scale(n.sqrt().recip())).abs(), lines 272-273 and 278-279, for a
\* bearing u and v of squared norm n.  On n = 0 the reciprocal is infinite
\* and every coordinate of v is 0: each product 0 * inf is not-a-number, and
\* so are the dot product and its absolute value.
ScaledDotAbs(u, v, n) ==
    IF n = 0 THEN NaN ELSE Number(0, Abs(Dot(u, v)), BearingNormSq * n)

\* Whether a result is exactly 1.0.
IsOne(r) ==
    /\ ~ r.nan
    /\ \/ r.int = 1 /\ r.num = 0
       \/ r.int = 0 /\ r.num > 0 /\ r.num * r.num = r.densq

\* Whether a result is exactly 0.0.
IsZero(r) == ~ r.nan /\ r.int = 0 /\ r.num = 0

---------------------------------------------------------------------------
(* The residuals, lines 192-200 and 247-288 *)

\* A variant of the chirality test that never rejects.
SignNegativeNever(d, negative_zero) == FALSE

\* f64::is_sign_negative of a dot product of exact value d.  A zero carries
\* a sign the integers do not keep: negative_zero says which.
SignNegative(d, negative_zero) == d < 0 \/ (d = 0 /\ negative_zero)

\* CameraToCamera::residual, lines 248-287, with what it computed on the way.
CameraToCamera_residual(p, data, negative_zero) ==
    LET a == MatVec(isometry(p).rotation, data.a)
        b == data.b
        translation == isometry(p).translation
        cross_a == Cross(a, translation)
        cross_a_norm_squared == NormSquared(cross_a)
        cross_b == Cross(b, translation)
        cross_b_norm_squared == NormSquared(cross_b)
        first == cross_a_norm_squared < cross_b_norm_squared
        residual == IF first
                    THEN ScaledDotAbs(a, cross_b, cross_b_norm_squared)
                    ELSE ScaledDotAbs(b, cross_a, cross_a_norm_squared)
    IN  [a |-> a, cross_a |-> cross_a, cross_b |-> cross_b, first |-> first,
         residual |-> residual,
         value |-> IF residual.nan \/ SignNegative(Dot(a, b), negative_zero)
                   THEN One
                   ELSE residual]

\* Projective::bearing: the point's xyz scaled to unit length; each
\* coordinate is 0 / 0, not-a-number, when xyz is the zero vector.
Bearing(point) ==
    LET xyz == <<point.h[1], point.h[2], point.h[3]>>
    IN  [nan |-> NormSquared(xyz) = 0, xyz |-> xyz, normsq |-> NormSquared(xyz)]

\* WorldToCamera::residual, lines 194-199: 1.0 - keypoint_bearing . bearing.
WorldToCamera_residual(p, data) ==
    LET observation_bearing == Bearing(transform(p, data.world))
    IN  [bearing |-> observation_bearing,
         value |-> IF observation_bearing.nan
                   THEN NaN
                   ELSE Number(1, - Dot(data.keypoint_bearing, observation_bearing.xyz),
                               BearingNormSq * observation_bearing.normsq)]

---------------------------------------------------------------------------
(* The pose operations as steps *)

\* Bearings: the six axis directions and four that lie on no axis.
Bearings ==
    {<<5, 0, 0>>, <<0, 5, 0>>, <<0, 0, 5>>, <<-5, 0, 0>>, <<0, -5, 0>>, <<0, 0, -5>>,
     <<3, 4, 0>>, <<-3, 4, 0>>, <<4, 0, 3>>, <<0, -4, 3>>}

\* Points, in homogeneous coordinates: the origin, the three unit points,
\* a point off every axis and a direction (w = 0).
Points ==
    {<<0, 0, 0, 1>>, <<1, 0, 0, 1>>, <<0, 1, 0, 1>>, <<0, 0, 1, 1>>,
     <<1, 2, 3, 1>>, <<1, 2, 3, 0>>}

Start == [stage |-> "start"]

DiffusionIdle ==
    /\ Ld = Image(0, 0, <<>>)
    /\ c = Image(0, 0, <<>>)
    /\ Lstep = Image(0, 0, <<>>)
    /\ step_size = 0
    /\ overflow_checks = TRUE
    /\ pc = "idle"
    /\ rng = NoRanges
    /\ y = 0
    /\ x = 0
    /\ it = NoIters
    /\ sl = NoSlice
    /\ Ld0 = Image(0, 0, <<>>)
    /\ Lstep0 = Image(0, 0, <<>>)
    /\ written = {}
    /\ steps = 0
    /\ Lbegin = Image(0, 0, <<>>)

\* A pose of any frame pair, and what one of its operations is handed: a
\* point of its input type; for a CameraToCamera, a match of two bearings;
\* for a WorldToCamera, a bearing matched with a world point.
InitPose ==
    /\ DiffusionIdle
    /\ \E tag \in PoseTags, rot \in Rotations, tr \in Translations :
         /\ pose = MakePose(tag, Isometry(rot, tr))
         /\ \/ \E h \in Points :
                 obs = [kind |-> "point", point |-> MakePoint(InputPoint(tag), h)]
            \/ /\ tag = "CameraToCamera"
               /\ \E a \in Bearings, b \in Bearings :
                    obs = [kind |-> "FeatureMatch", a |-> a, b |-> b]
            \/ /\ tag = "WorldToCamera"
               /\ \E k \in Bearings, h \in Points :
                    obs = [kind |-> "FeatureWorldMatch", keypoint_bearing |-> k,
                           world |-> MakePoint("WorldPoint", h)]
    /\ res = Start

\* pose.transform(point).
Transform ==
    /\ obs.kind = "point" /\ res.stage = "start"
    /\ res' = [stage |-> "transformed", output |-> transform(pose, obs.point)]
    /\ UNCHANGED <<pose, obs>>
    /\ UNCHANGED dvars

\* pose.inverse().
Inverse ==
    /\ obs.kind = "point" /\ res.stage = "transformed"
    /\ res' = [stage |-> "inverted", output |-> res.output, inv |-> inverse(pose)]
    /\ UNCHANGED <<pose, obs>>
    /\ UNCHANGED dvars

\* pose.inverse().transform(output) and pose.inverse().inverse().
RoundTrip ==
    /\ obs.kind = "point" /\ res.stage = "inverted"
    /\ res' = [stage |-> "done", output |-> res.output, inv |-> res.inv,
               back |-> transform(res.inv, res.output),
               twice |-> inverse(res.inv)]
    /\ UNCHANGED <<pose, obs>>
    /\ UNCHANGED dvars

\* pose.residual(&FeatureMatch(a, b)).
ResidualCameraToCamera ==
    /\ obs.kind = "FeatureMatch" /\ res.stage = "start"
    /\ \E negative_zero \in BOOLEAN :
         res' = [stage |-> "done",
                 got |-> CameraToCamera_residual(pose, obs, negative_zero)]
    /\ UNCHANGED <<pose, obs>>
    /\ UNCHANGED dvars

\* pose.residual(&FeatureWorldMatch(keypoint_bearing, world)).
ResidualWorldToCamera ==
    /\ obs.kind = "FeatureWorldMatch" /\ res.stage = "start"
    /\ res' = [stage |-> "done", got |-> WorldToCamera_residual(pose, obs)]
    /\ UNCHANGED <<pose, obs>>
    /\ UNCHANGED dvars

\* pose.transform_jacobians(point).
TransformJacobians ==
    /\ obs.kind = "point" /\ res.stage = "start"
    /\ res' = [stage |-> "jacobians", by |-> "transform_jacobians",
               output |-> transform_jacobians(pose, obs.point).output,
               jacobian_input |-> transform_jacobians(pose, obs.point).jacobian_input,
               jacobian_self |-> transform_jacobians(pose, obs.point).jacobian_self]
    /\ UNCHANGED <<pose, obs>>
    /\ UNCHANGED dvars

\* pose.transform_jacobian_self(point).
TransformJacobianSelf ==
    /\ obs.kind = "point" /\ res.stage = "start"
    /\ res' = [stage |-> "jacobians", by |-> "transform_jacobian_self",
               output |-> transform_jacobian_self(pose, obs.point).output,
               jacobian_self |-> transform_jacobian_self(pose, obs.point).jacobian_self]
    /\ UNCHANGED <<pose, obs>>
    /\ UNCHANGED dvars

NextPose ==
    \/ Transform
    \/ Inverse
    \/ RoundTrip
    \/ ResidualCameraToCamera
    \/ ResidualWorldToCamera
    \/ TransformJacobians
    \/ TransformJacobianSelf

SpecPose == InitPose /\ [][NextPose]_vars

---------------------------------------------------------------------------
(* The claims about calculate_step *)

\* The pixel (px, py) of a grid.
At(img, px, py) == img.data[py * img.width + px + 1]

InGrid(img, px, py) == 0 <= px /\ px < img.width /\ 0 <= py /\ py < img.height

\* The call keeps the contract: a grid of at least 2 by 2 and a conductivity
\* field of the image's size.
WellFormed ==
    /\ Ld0.width >= 2
    /\ Ld0.height >= 2
    /\ c.width = Ld0.width
    /\ c.height = Ld0.height

\* The flux of the claim between the pixel p and its neighbour q, written as
\* the flux towards q: (c[p] + c[q]) * (L[q] - L[p]), L being the image the
\* call started from; nothing when q is outside the grid.
FluxTowards(px, py, qx, qy) ==
    IF InGrid(Ld0, qx, qy)
    THEN (At(c, px, py) + At(c, qx, qy)) * (At(Ld0, qx, qy) - At(Ld0, px, py))
    ELSE 0

\* flux_right - flux_left + flux_down - flux_up of the pixel (px, py);
\* flux_left and flux_up are the negated fluxes towards the left and upper
\* neighbours.
NetFlux(px, py) ==
    LET flux_right == FluxTowards(px, py, px + 1, py)
        flux_down == FluxTowards(px, py, px, py + 1)
        flux_left == - FluxTowards(px, py, px - 1, py)
        flux_up == - FluxTowards(px, py, px, py - 1)
    IN  flux_right - flux_left + flux_down - flux_up

Finished == pc \in {"apply", "done"}

\* The scratch pixel (px, py) holds 0.5 * step_size * NetFlux(px, py).
ScratchIsNetFlux(px, py) == 2 * At(Lstep, px, py) = step_size * NetFlux(px, py)

\* The point-source scenario of C1.
PointSourceCall ==
    /\ Ld0 = PointImage(5, 5, 0, 13, Fix)
    /\ c = PointImage(5, 5, 1, 1, 1)
    /\ step_size = 1

CardinalNeighbours == {<<1, 2>>, <<3, 2>>, <<2, 1>>, <<2, 3>>}

\* What the pixel (px, py) of the image gained over the call, in halves.
Gain(px, py) == At(Ld, px, py) - At(Ld0, px, py)

\* C1 as stated: after one step of the point-source scenario each of the four
\* cardinal neighbours of the centre has received exactly 0.5 and the centre
\* has decreased by exactly 2.0.
C1_PointSourceAsStated ==
    (pc = "done" /\ PointSourceCall) =>
        /\ \A n \in CardinalNeighbours : 2 * Gain(n[1], n[2]) = Fix
        /\ Gain(2, 2) = - 2 * Fix

\* C1 as amended: after one step of the point-source scenario each of the
\* four cardinal neighbours of the centre has received exactly 1.0, the
\* centre has decreased by exactly 4.0, and every other pixel is still 0.0.
C1_PointSource ==
    (pc = "done" /\ PointSourceCall) =>
        /\ \A n \in CardinalNeighbours : Gain(n[1], n[2]) = Fix
        /\ Gain(2, 2) = - 4 * Fix
        /\ \A px \in 0..4, py \in 0..4 :
             (<<px, py>> \notin CardinalNeighbours /\ <<px, py>> # <<2, 2>>)
                 => At(Ld, px, py) = 0

C1_Witness == pc = "done" /\ PointSourceCall /\ At(Ld, 3, 2) = Fix

\* C2: in a well-formed call, once the scratch buffer is written every pixel
\* of it, interior, edge or corner, holds 0.5 * step_size * (flux_right -
\* flux_left + flux_down - flux_up) of the image the call started from, a
\* flux whose neighbour is outside the grid being left out.
C2_ScratchFormula ==
    (Finished /\ WellFormed) =>
        \A px \in 0..(Ld0.width - 1), py \in 0..(Ld0.height - 1) :
            ScratchIsNetFlux(px, py)

C2_Witness ==
    /\ pc = "done" /\ WellFormed
    /\ Ld0.width = 3 /\ Ld0.height = 3
    /\ At(Lstep, 1, 1) # 0 /\ At(Lstep, 0, 0) # 0 /\ At(Lstep, 2, 1) # 0
    /\ \E i \in 1..9 : c.data[i] # c.data[1]

IsFlat(img) == \A i \in 1..Len(img.data) : img.data[i] = img.data[1]

\* C3: in a well-formed call on an image whose pixels all equal v, under any
\* conductivity field, every scratch pixel written is 0, all of them are
\* written by the end, and the image equals v everywhere throughout.
C3_FlatField ==
    (WellFormed /\ IsFlat(Ld0)) =>
        /\ \A i \in written : Lstep.data[i + 1] = 0
        /\ Ld = Ld0
        /\ pc # "fault"
        /\ Finished => written = AllPixels(Lstep)

C3_Witness ==
    /\ pc = "done" /\ WellFormed /\ IsFlat(Ld0)
    /\ Ld0.data[1] # 0
    /\ ~ IsFlat(c)
    /\ Lstep0.data[1] # 0
    /\ Ld0.width = 3 /\ Ld0.height = 3

\* C4: no image pixel changes before every scratch pixel is written; the
\* scratch buffer then holds the update computed from the image the call
\* started from (whatever the scratch buffer held before); and the pixels
\* applied so far, all of them at the end, equal the starting value plus the
\* scratch value at the same position.
C4_SimultaneousUpdate ==
    /\ (Ld # Ld0) => (Finished /\ written = AllPixels(Lstep))
    /\ (Finished /\ WellFormed) =>
          /\ written = AllPixels(Lstep)
          /\ \A px \in 0..(Ld0.width - 1), py \in 0..(Ld0.height - 1) :
                ScratchIsNetFlux(px, py)
    /\ Finished =>
          \A i \in 1..Len(Ld.data) :
              Ld.data[i] = IF pc = "done" \/ i <= sl.next
                           THEN Ld0.data[i] + Lstep.data[i]
                           ELSE Ld0.data[i]

C4_Witness ==
    /\ pc = "done" /\ WellFormed
    /\ Ld0.width = 3 /\ Ld0.height = 3
    /\ Lstep0.data[5] = 7
    /\ Lstep.data[5] # 0 /\ Lstep.data[4] # 0
    /\ Ld.data[5] # Ld0.data[5]

\* The conductivity field and the image differ in width or height.
Mismatch == c.width # Ld0.width \/ c.height # Ld0.height

\* C5: a call whose conductivity field differs in size from the image never
\* returns normally.
C5_MismatchFailsFast == Mismatch => pc # "done"

TooSmall == Ld0.width < 2 \/ Ld0.height < 2

\* C6: a call on buffers of width or height 0 or 1 never returns normally,
\* never writes a pixel of the image or of the scratch buffer, and goes on
\* until it faults.
C6_TooSmallFaults ==
    TooSmall =>
        /\ pc \notin {"apply", "done"}
        /\ Ld = Ld0
        /\ Lstep = Lstep0
        /\ written = {}
        /\ pc # "fault" => ENABLED Next

C6_Witness ==
    /\ pc = "fault"
    /\ Ld0.width = 0 /\ Ld0.height = 2
    /\ ~ overflow_checks
    /\ rng.xend = UsizeModulus - 1

---------------------------------------------------------------------------
(* The claims about the residuals and the poses *)

\* A CameraToCamera residual has returned.
MatchDone == res.stage = "done" /\ obs.kind = "FeatureMatch"

\* A WorldToCamera residual has returned.
WorldMatchDone == res.stage = "done" /\ obs.kind = "FeatureWorldMatch"

\* The first bearing of the match in the pose's destination frame.
RotatedA == MatVec(pose.iso.rotation, obs.a)

\* C7: CameraToCamera::residual returns exactly 1.0 whenever dot(a, b) < 0,
\* a being the first bearing in the destination frame, whatever the
\* translation, the two cross products and the sine distance computed.
C7_ChiralityRejection ==
    (MatchDone /\ Dot(RotatedA, obs.b) < 0) => IsOne(res.got.value)

C7_Witness ==
    /\ MatchDone
    /\ Dot(RotatedA, obs.b) < 0
    /\ NormSquared(res.got.cross_a) # NormSquared(res.got.cross_b)
    /\ ~ res.got.residual.nan
    /\ ~ IsOne(res.got.residual)
    /\ ~ IsZero(res.got.residual)
    /\ res.got.first

\* C8: with the translation (0,0,0), whatever the rotation and the bearings,
\* both cross products are zero, the branch of the tie is taken, the
\* division in it yields not-a-number, and the residual returned is 1.0.
C8_DegenerateTranslation ==
    (MatchDone /\ pose.iso.translation = <<0, 0, 0>>) =>
        /\ res.got.cross_a = <<0, 0, 0>>
        /\ res.got.cross_b = <<0, 0, 0>>
        /\ ~ res.got.first
        /\ res.got.residual.nan
        /\ IsOne(res.got.value)

C8_Witness ==
    /\ MatchDone
    /\ pose.iso.translation = <<0, 0, 0>>
    /\ pose.iso.rotation # IdentityMatrix
    /\ Dot(RotatedA, obs.b) > 0
    /\ RotatedA # obs.b
    /\ IsOne(res.got.value)

\* The geometry of a returned residual is degenerate: the world point lies on
\* the optical centre, or the translation is parallel to both bearings.
Degenerate ==
    \/ WorldMatchDone /\ res.got.bearing.normsq = 0
    \/ MatchDone /\ res.got.cross_a = <<0, 0, 0>> /\ res.got.cross_b = <<0, 0, 0>>

\* C9: whatever the pose and the observation, the value either residual
\* returns is never not-a-number, and on degenerate geometry it is 1.0.
C9_ResidualsTotal ==
    (MatchDone \/ WorldMatchDone) =>
        /\ ~ res.got.value.nan
        /\ Degenerate => IsOne(res.got.value)

\* The frame pair of a pose, reversed.
Reversed(tag) ==
    CASE tag = "WorldToCamera" -> "CameraToWorld"
      [] tag = "CameraToWorld" -> "WorldToCamera"
      [] OTHER -> tag

\* C10: the inverse of a pose has the reversed frame pair (it takes the
\* points the pose returns and returns the points the pose takes), its
\* isometry composed with the pose's is the identity, it maps the
\* transformed point back to the point, and its own inverse is the pose.
C10_InverseReversesFrames ==
    (res.stage = "done" /\ obs.kind = "point") =>
        /\ res.inv.tag = Reversed(pose.tag)
        /\ InputPoint(res.inv.tag) = OutputPoint(pose.tag)
        /\ OutputPoint(res.inv.tag) = InputPoint(pose.tag)
        /\ IsoMul(res.inv.iso, pose.iso) = IsoIdentity
        /\ res.back = obs.point
        /\ res.twice = pose

C10_Witness ==
    /\ res.stage = "done" /\ obs.kind = "point"
    /\ pose.tag = "WorldToCamera"
    /\ pose.iso.rotation # IdentityMatrix
    /\ pose.iso.rotation # Transpose(pose.iso.rotation)
    /\ pose.iso.translation = <<1, -1, 0>>
    /\ obs.point.h = <<1, 2, 3, 1>>
    /\ res.output.h # obs.point.h
    /\ res.inv.tag = "CameraToWorld"

---------------------------------------------------------------------------
(* The claim about the Jacobians *)

\* transform_jacobians or transform_jacobian_self has returned.
JacobiansDone == res.stage = "jacobians" /\ obs.kind = "point"

AxisVectors == <<<<1, 0, 0>>, <<0, 1, 0>>, <<0, 0, 1>>>>

\* The homogeneous output of transform for the pose's frame pair around the
\* given rotation and translation.
OutputOf(rot, tr) == transform(MakePose(pose.tag, Isometry(rot, tr)), obs.point).h

\* The change of the homogeneous output when translation parameter j grows
\* by 1: the output is affine in the translation, so this difference
\* quotient is the derivative.
TranslationDerivative(j) ==
    LET moved == OutputOf(pose.iso.rotation, VecAdd(pose.iso.translation, AxisVectors[j]))
        here == OutputOf(pose.iso.rotation, pose.iso.translation)
    IN  [r \in 1..4 |-> moved[r] - here[r]]

\* The homogeneous weight of the output is the same under every rotation:
\* its derivative with respect to each rotation parameter is 0.
WeightIgnoresRotation ==
    \A rot \in Rotations :
        OutputOf(rot, pose.iso.translation)[4]
            = OutputOf(pose.iso.rotation, pose.iso.translation)[4]

\* The derivative of the output's xyz with respect to rotation parameter i
\* at the rotation parameters (0,0,0): with the rotation exp(s * e_i^) the
\* output is p + s * (e_i x p) + O(s^2) + w * t, p being the input's xyz.
RotationDerivativeAtIdentity(i) ==
    Cross(AxisVectors[i], <<obs.point.h[1], obs.point.h[2], obs.point.h[3]>>)

\* The column k of the 4 by 6 matrix.
JacobianColumn(J, k) == [r \in 1..4 |-> J[r][k]]

\* C11: the 4 by 6 matrix returned by transform_jacobians and by
\* transform_jacobian_self is the derivative of the homogeneous output of
\* transform with respect to the six se(3) parameters: column j of the first
\* three is the derivative with respect to translation parameter j, and each
\* of the last three columns has in every row, the row of the homogeneous
\* weight included, the derivative with respect to its rotation parameter
\* (0 in the weight's row, as no rotation changes the weight; the xyz rows
\* are stated where the rotation parameters are (0,0,0)).
C11_JacobianIsDerivative ==
    JacobiansDone =>
        /\ \A j \in 1..3 :
             JacobianColumn(res.jacobian_self, j) = TranslationDerivative(j)
        /\ \A i \in 1..3 :
             /\ WeightIgnoresRotation => res.jacobian_self[4][3 + i] = 0
             /\ pose.iso.rotation = IdentityMatrix =>
                  \A r \in 1..3 :
                      res.jacobian_self[r][3 + i] = RotationDerivativeAtIdentity(i)[r]

---------------------------------------------------------------------------
(* The claim about a sequence of steps *)

RECURSIVE SumTo(_, _)
\* The sum of the first n subpixels of a grid.
SumTo(img, n) == IF n = 0 THEN 0 ELSE img.data[n] + SumTo(img, n - 1)

\* The sum of all pixels of a grid.
Total(img) == SumTo(img, Len(img.data))

\* The two fluxes across every edge between two adjacent pixels, each
\* written from its own end, have equal magnitude and opposite sign.
EdgesBalance ==
    \A px \in 0..(Ld0.width - 1), py \in 0..(Ld0.height - 1) :
        /\ InGrid(Ld0, px + 1, py) =>
             FluxTowards(px, py, px + 1, py) = - FluxTowards(px + 1, py, px, py)
        /\ InGrid(Ld0, px, py + 1) =>
             FluxTowards(px, py, px, py + 1) = - FluxTowards(px, py + 1, px, py)

\* C12: in a sequence of well-formed steps, the conductivity field being
\* changed between them, every step's scratch buffer once written holds at
\* each pixel the signed sum of the fluxes across the pixel's edges, the flux
\* across an edge entering its two pixels with opposite signs, and sums to
\* zero over all pixels; the sum of the image's pixels is, before and after
\* every step, the sum the sequence began with.
C12_Conservation ==
    WellFormed =>
        /\ pc # "fault"
        /\ Finished =>
             /\ written = AllPixels(Lstep)
             /\ \A px \in 0..(Ld0.width - 1), py \in 0..(Ld0.height - 1) :
                    ScratchIsNetFlux(px, py)
             /\ EdgesBalance
             /\ Total(Lstep) = 0
        /\ pc # "apply" => Total(Ld) = Total(Lbegin)

C12_Witness ==
    /\ pc = "done" /\ WellFormed
    /\ steps = 1
    /\ Ld0.width = 3 /\ Ld0.height = 3
    /\ ~ IsFlat(c)
    /\ Ld0 # Lbegin
    /\ Ld # Ld0
    /\ Lstep # Lstep0
    /\ Lstep.data[5] # 0 /\ Lstep.data[1] # 0 /\ Lstep.data[6] # 0
    /\ Total(Ld) = Total(Lbegin)
    /\ Total(Lbegin) # 0

============================================================================
